---- MODULE Spec2Model ----
(***************************************************************************)
(* Model of the pinocchio-escrow program (Make / Accept / Refund) and of   *)
(* the ledger it runs on.  One action = one call of process_instruction    *)
(* inside one transaction: the runtime keeps the resulting ledger when the *)
(* program returns Ok and discards it when the program returns Err or when *)
(* the runtime itself ends the transaction at a failed invocation.         *)
(* The Deposit operation of the pinocchio_vault program is modelled next   *)
(* to it, on accounts of its own (bank) and with its own specification.    *)
(***************************************************************************)
EXTENDS Integers, Sequences, FiniteSets, TLC

VARIABLES ledger, last, served, bank, call

vars == <<ledger, last, served, bank, call>>

----------------------------------------------------------------------------
(* Bounds of the model                                                     *)

\* largest deposit / receive amount a client puts in a Make payload
MaxAmount == 2
\* tokens each wallet starts with, per mint
InitTokens == 1
\* lamports each wallet of the vault program starts with
VaultFunds == 3

----------------------------------------------------------------------------
(* Program constants                                                       *)

ESCROW_ID == "escrow_program"
TOKEN_ID == "token_program"
ATA_ID == "associated_token_program"
SYSTEM_ID == "system_program"

\* Escrow::LEN = 32 + 32 + 32 + 8 + 1
EscrowLEN == 105
MintLEN == 82
TokenAccountLEN == 165
\* Rent::get()?.minimum_balance(len), scaled down
EscrowRent == 1
TokenRent == 2

VAULT_ID == "vault_program"
DEPOSIT_DISCRIMINATOR == 0

MAKE_DISCRIMINATOR == 0
ACCEPT_DISCRIMINATOR == 1
REFUND_DISCRIMINATOR == 2

\* a u64 is 8 bytes; a byte is modelled with ByteRadix values instead of 256
\* so that every u64 stays a small integer
U64Bytes == 8
ByteRadix == 4

----------------------------------------------------------------------------
(* Public keys and address derivation                                      *)

\* a key pair address (wallets, mints)
Key(n) == [prog |-> "ed25519", seeds |-> <<n>>]
\* Pubkey::default(), the content of zero-filled account data
ZeroKey == [prog |-> "ed25519", seeds |-> <<>>]

\* the bytes of a key used as a seed
AsRef(k) == <<k.prog>> \o k.seeds

\* a bump byte used as a seed
U8Seed(b) == CASE b = 255 -> <<"255">>
               [] b = 254 -> <<"254">>
               [] b = 0 -> <<"0">>
               [] OTHER -> <<"u8">>

\* create_program_address: the address is a hash of the concatenated seeds
\* and the program id; distinct seed strings give distinct addresses
CreateProgramAddress(seeds, program) == [prog |-> program, seeds |-> seeds]

\* the bump found by find_program_address: a fixed function of the seeds
FindBump(seeds) == IF \E i \in 1..Len(seeds) : seeds[i] = "A" THEN 255 ELSE 254

FindProgramAddress(seeds, program) ==
    [key |-> CreateProgramAddress(seeds \o U8Seed(FindBump(seeds)), program),
     bump |-> FindBump(seeds)]

\* find_program_address(&[b"escrow", maker, mint_x], &crate::ID)
EscrowSeeds(maker, mint_x) == <<"escrow">> \o AsRef(maker) \o AsRef(mint_x)
EscrowPda(maker, mint_x) == FindProgramAddress(EscrowSeeds(maker, mint_x), ESCROW_ID)

\* find_program_address(&[wallet, &pinocchio_token::ID, mint], &ATA_ID).0
AtaAddress(wallet, mint) ==
    FindProgramAddress(AsRef(wallet) \o <<TOKEN_ID>> \o AsRef(mint), ATA_ID).key

Wallets == {Key("A"), Key("B")}
Mints == {Key("X"), Key("Y")}
EscrowAddrs == {EscrowPda(w, m).key : w \in Wallets, m \in Mints}
WalletAtas == {AtaAddress(w, m) : w \in Wallets, m \in Mints}
VaultAddrs == {AtaAddress(e, m) : e \in EscrowAddrs, m \in Mints}
TokenAddrs == WalletAtas \cup VaultAddrs
Addrs == Wallets \cup Mints \cup EscrowAddrs \cup TokenAddrs

OtherWallet(w) == CHOOSE v \in Wallets : v # w
OtherMint(m) == CHOOSE n \in Mints : n # m

----------------------------------------------------------------------------
(* Account data                                                            *)

\* struct Escrow
ZeroEscrow == [maker |-> ZeroKey, mint_x |-> ZeroKey, mint_y |-> ZeroKey,
               receive |-> 0, bump |-> 0]
\* the fields of a token account the program depends on
ZeroToken == [mint |-> ZeroKey, owner |-> ZeroKey, amount |-> 0]

\* an account that does not exist: no lamports, no data, system owned
EmptyLedger ==
    [lamports |-> [a \in Addrs |-> 0],
     owner |-> [a \in Addrs |-> SYSTEM_ID],
     len |-> [a \in Addrs |-> 0],
     token |-> [a \in TokenAddrs |-> ZeroToken],
     escrow |-> [a \in EscrowAddrs |-> ZeroEscrow]]

IsTokenAccount(l, a) == l.owner[a] = TOKEN_ID /\ l.len[a] = TokenAccountLEN
IsMint(l, a) == l.owner[a] = TOKEN_ID /\ l.len[a] = MintLEN
\* the record account holds an escrow record
RecordOpen(l, e) == l.owner[e] = ESCROW_ID /\ l.len[e] = EscrowLEN

\* the runtime drops every account left without lamports when a
\* transaction is committed
Purge(l) ==
    [lamports |-> l.lamports,
     owner |-> [a \in Addrs |-> IF l.lamports[a] = 0 THEN SYSTEM_ID ELSE l.owner[a]],
     len |-> [a \in Addrs |-> IF l.lamports[a] = 0 THEN 0 ELSE l.len[a]],
     token |-> [a \in TokenAddrs |-> IF l.lamports[a] = 0 THEN ZeroToken ELSE l.token[a]],
     escrow |-> [a \in EscrowAddrs |-> IF l.lamports[a] = 0 THEN ZeroEscrow ELSE l.escrow[a]]]

----------------------------------------------------------------------------
(* Results: ok, the error, whether the error came out of a cross-program   *)
(* invocation, the phase the error belongs to, the ledger so far and the   *)
(* steps performed so far.  An operation applied to a result that is an    *)
(* error hands that error on, as `?` does.                                 *)

Ok(l, steps) ==
    [ok |-> TRUE, err |-> "none", cpi |-> FALSE, phase |-> "none", l |-> l, steps |-> steps]
Err(e, l, steps) ==
    [ok |-> FALSE, err |-> e, cpi |-> FALSE, phase |-> "process", l |-> l, steps |-> steps]
CpiErr(e, l, steps) ==
    [ok |-> FALSE, err |-> e, cpi |-> TRUE, phase |-> "process", l |-> l, steps |-> steps]

\* the `?` after try_from in process_instruction: an error of try_from is
\* what process_instruction returns
Validated(r) == IF r.ok THEN r ELSE [r EXCEPT !.phase = "validate"]

----------------------------------------------------------------------------
(* The collaborators: system program, associated token program, token      *)
(* program.  r = the result so far; signers = the accounts that count as   *)
(* signers of the invocation: the signers of the transaction and the       *)
(* addresses derived from the seeds given to invoke_signed.                *)

\* CreateAccount that does not look at what the new account holds
SystemCreateAccount_NoInUseCheck(r, from, to, lamports, space, owner, signers, step) ==
    IF ~r.ok THEN r
    ELSE IF from \notin signers \/ to \notin signers
      THEN CpiErr("PrivilegeEscalation", r.l, r.steps)
    ELSE IF r.l.lamports[from] < lamports
      THEN CpiErr("InsufficientLamports", r.l, r.steps)
    ELSE Ok([r.l EXCEPT !.lamports[from] = @ - lamports,
                        !.lamports[to] = @ + lamports,
                        !.len[to] = space,
                        !.owner[to] = owner,
                        !.escrow[to] = ZeroEscrow], Append(r.steps, step))

\* pinocchio_system CreateAccount
SystemCreateAccount(r, from, to, lamports, space, owner, signers, step) ==
    IF ~r.ok THEN r
    ELSE IF from \notin signers \/ to \notin signers
      THEN CpiErr("PrivilegeEscalation", r.l, r.steps)
    ELSE IF r.l.lamports[to] > 0 \/ r.l.len[to] > 0 \/ r.l.owner[to] # SYSTEM_ID
      THEN CpiErr("AccountAlreadyInUse", r.l, r.steps)
    ELSE IF r.l.lamports[from] < lamports
      THEN CpiErr("InsufficientLamports", r.l, r.steps)
    ELSE Ok([r.l EXCEPT !.lamports[from] = @ - lamports,
                        !.lamports[to] = @ + lamports,
                        !.len[to] = space,
                        !.owner[to] = owner,
                        !.escrow[to] = ZeroEscrow], Append(r.steps, step))

\* pinocchio_associated_token_account Create
AtaCreate(r, funding_account, account, wallet, mint, signers, step) ==
    IF ~r.ok THEN r
    ELSE IF funding_account \notin signers
      THEN CpiErr("PrivilegeEscalation", r.l, r.steps)
    ELSE IF account # AtaAddress(wallet, mint)
      THEN CpiErr("InvalidSeeds", r.l, r.steps)
    ELSE IF r.l.owner[account] # SYSTEM_ID
      THEN CpiErr("IllegalOwner", r.l, r.steps)
    ELSE IF ~IsMint(r.l, mint)
      THEN CpiErr("InvalidMint", r.l, r.steps)
    ELSE IF r.l.lamports[funding_account] < TokenRent
      THEN CpiErr("InsufficientLamports", r.l, r.steps)
    ELSE Ok([r.l EXCEPT !.lamports[funding_account] = @ - TokenRent,
                        !.lamports[account] = @ + TokenRent,
                        !.len[account] = TokenAccountLEN,
                        !.owner[account] = TOKEN_ID,
                        !.token[account] = [mint |-> mint, owner |-> wallet, amount |-> 0]],
            Append(r.steps, step))

\* Transfer that credits the destination and leaves the source as it is
TokenTransfer_NoDebit(r, from, to, authority, amount, signers, step) ==
    IF ~r.ok THEN r
    ELSE IF authority \notin signers
      THEN CpiErr("PrivilegeEscalation", r.l, r.steps)
    ELSE IF ~IsTokenAccount(r.l, from) \/ ~IsTokenAccount(r.l, to)
      THEN CpiErr("InvalidAccountData", r.l, r.steps)
    ELSE IF r.l.token[from].amount < amount
      THEN CpiErr("InsufficientFunds", r.l, r.steps)
    ELSE IF r.l.token[from].mint # r.l.token[to].mint
      THEN CpiErr("MintMismatch", r.l, r.steps)
    ELSE IF r.l.token[from].owner # authority
      THEN CpiErr("OwnerMismatch", r.l, r.steps)
    ELSE Ok([r.l EXCEPT !.token[to].amount = @ + amount], Append(r.steps, step))

\* pinocchio_token Transfer
TokenTransfer(r, from, to, authority, amount, signers, step) ==
    IF ~r.ok THEN r
    ELSE IF authority \notin signers
      THEN CpiErr("PrivilegeEscalation", r.l, r.steps)
    ELSE IF ~IsTokenAccount(r.l, from) \/ ~IsTokenAccount(r.l, to)
      THEN CpiErr("InvalidAccountData", r.l, r.steps)
    ELSE IF r.l.token[from].amount < amount
      THEN CpiErr("InsufficientFunds", r.l, r.steps)
    ELSE IF r.l.token[from].mint # r.l.token[to].mint
      THEN CpiErr("MintMismatch", r.l, r.steps)
    ELSE IF r.l.token[from].owner # authority
      THEN CpiErr("OwnerMismatch", r.l, r.steps)
    ELSE IF from = to
      THEN Ok(r.l, Append(r.steps, step))
    ELSE Ok([r.l EXCEPT !.token[from].amount = @ - amount,
                        !.token[to].amount = @ + amount], Append(r.steps, step))

\* pinocchio_token CloseAccount
TokenCloseAccount(r, account, destination, authority, signers, step) ==
    IF ~r.ok THEN r
    ELSE IF authority \notin signers
      THEN CpiErr("PrivilegeEscalation", r.l, r.steps)
    ELSE IF ~IsTokenAccount(r.l, account)
      THEN CpiErr("InvalidAccountData", r.l, r.steps)
    ELSE IF account = destination
      THEN CpiErr("InvalidAccountData", r.l, r.steps)
    ELSE IF r.l.token[account].amount # 0
      THEN CpiErr("NonNativeHasBalance", r.l, r.steps)
    ELSE IF r.l.token[account].owner # authority
      THEN CpiErr("OwnerMismatch", r.l, r.steps)
    ELSE Ok([r.l EXCEPT !.lamports[destination] = @ + r.l.lamports[account],
                        !.lamports[account] = 0,
                        !.len[account] = 0,
                        !.owner[account] = SYSTEM_ID,
                        !.token[account] = ZeroToken], Append(r.steps, step))

----------------
(* Instruction data                                                        *)

RECURSIVE FromLeBytes(_)
\* u64::from_le_bytes
FromLeBytes(b) == IF b = <<>> THEN 0 ELSE Head(b) + ByteRadix * FromLeBytes(Tail(b))

RECURSIVE Reverse(_)
Reverse(b) == IF b = <<>> THEN <<>> ELSE Append(Reverse(Tail(b)), Head(b))

\* u64::from_be_bytes
FromBeBytes(b) == FromLeBytes(Reverse(b))

\* u64::to_le_bytes / u64::to_be_bytes, what a client uses to build a payload
ToLeBytes(v) == [i \in 1..U64Bytes |-> (v \div (ByteRadix ^ (i - 1))) % ByteRadix]
ToBeBytes(v) == Reverse(ToLeBytes(v))

----------------------------------------------------------------------------
(* Make: instructions/offer.rs                                             *)

\* MakeOfferAccounts::try_from with the checks of the mints before the check
\* of the signature
MakeOfferAccountsTryFrom_MintsFirst(l, a) ==
    IF a.n # 9 THEN "NotEnoughAccountKeys"
    ELSE IF l.owner[a.mint_x] # TOKEN_ID \/ l.owner[a.mint_y] # TOKEN_ID
      THEN "InvalidAccountOwner"
    ELSE IF l.len[a.mint_x] # MintLEN \/ l.len[a.mint_y] # MintLEN
      THEN "InvalidAccountOwner"
    ELSE IF a.maker \notin a.signers THEN "MissingRequiredSignature"
    ELSE IF AtaAddress(a.maker, a.mint_x) # a.maker_ata_x THEN "InvalidAccountData"
    ELSE "none"

\* MakeOfferAccounts::try_from; "none" when the accounts are accepted
MakeOfferAccountsTryFrom(l, a) ==
    IF a.n # 9 THEN "NotEnoughAccountKeys"
    ELSE IF a.maker \notin a.signers THEN "MissingRequiredSignature"
    ELSE IF l.owner[a.mint_x] # TOKEN_ID \/ l.owner[a.mint_y] # TOKEN_ID
      THEN "InvalidAccountOwner"
    ELSE IF l.len[a.mint_x] # MintLEN \/ l.len[a.mint_y] # MintLEN
      THEN "InvalidAccountOwner"
    ELSE IF AtaAddress(a.maker, a.mint_x) # a.maker_ata_x THEN "InvalidAccountData"
    ELSE "none"

\* MakeOfferArgs::try_from without the check of the deposit
MakeOfferArgsTryFrom_NoZeroCheck(data) ==
    IF Len(data) # U64Bytes * 2
      THEN [err |-> "InvalidInstructionData", receive |-> 0, amount |-> 0]
    ELSE [err |-> "none",
          receive |-> FromLeBytes(SubSeq(data, U64Bytes + 1, 2 * U64Bytes)),
          amount |-> FromBeBytes(SubSeq(data, 1, U64Bytes))]

\* MakeOfferArgs::try_from
MakeOfferArgsTryFrom(data) ==
    IF Len(data) # U64Bytes * 2
      THEN [err |-> "InvalidInstructionData", receive |-> 0, amount |-> 0]
    ELSE LET receive == FromLeBytes(SubSeq(data, U64Bytes + 1, 2 * U64Bytes))
             amount == FromBeBytes(SubSeq(data, 1, U64Bytes))
         IN  IF amount = 0
               THEN [err |-> "InvalidInstructionData", receive |-> receive, amount |-> amount]
               ELSE [err |-> "none", receive |-> receive, amount |-> amount]

\* the bump MakeOfferInstruction::try_from keeps for process
MakeBump(a) == EscrowPda(a.maker, a.mint_x).bump

\* MakeOfferInstruction::try_from: validation, then creation of the record
\* account and of the custody account
MakeOfferInstructionTryFrom(l, a) ==
    LET accErr == MakeOfferAccountsTryFrom(l, a)
        args == MakeOfferArgsTryFrom(a.data)
        seeds == EscrowSeeds(a.maker, a.mint_x) \o U8Seed(MakeBump(a))
        pda == CreateProgramAddress(seeds, ESCROW_ID)
        checked == IF accErr # "none" THEN Err(accErr, l, <<>>)
                   ELSE IF args.err # "none" THEN Err(args.err, l, <<>>)
                   ELSE Ok(l, <<>>)
        c1 == SystemCreateAccount(checked, a.maker, a.escrow, EscrowRent, EscrowLEN,
                                  ESCROW_ID, a.signers \cup {pda}, "create_record")
    IN  AtaCreate(c1, a.maker, a.vault, a.escrow, a.mint_x, a.signers, "create_custody")

\* MakeOfferInstruction::process writing the deposit where the receive amount
\* belongs
MakeOfferProcess_StoresDeposit(t, a) ==
    LET args == MakeOfferArgsTryFrom(a.data)
        written ==
            IF ~t.ok THEN t
            ELSE IF t.l.len[a.escrow] # EscrowLEN
              THEN Err("InvalidAccountData", t.l, t.steps)
            ELSE Ok([t.l EXCEPT !.escrow[a.escrow] =
                       [maker |-> a.maker, mint_x |-> a.mint_x, mint_y |-> a.mint_y,
                        receive |-> args.amount, bump |-> MakeBump(a)]],
                    Append(t.steps, "write_record"))
    IN  TokenTransfer(written, a.maker_ata_x, a.vault, a.maker, args.amount, a.signers,
                      "deposit")

\* MakeOfferInstruction::process, on what try_from has built
MakeOfferProcess(t, a) ==
    LET args == MakeOfferArgsTryFrom(a.data)
        written ==
            IF ~t.ok THEN t
            ELSE IF t.l.len[a.escrow] # EscrowLEN
              THEN Err("InvalidAccountData", t.l, t.steps)
            ELSE Ok([t.l EXCEPT !.escrow[a.escrow] =
                       [maker |-> a.maker, mint_x |-> a.mint_x, mint_y |-> a.mint_y,
                        receive |-> args.receive, bump |-> MakeBump(a)]],
                    Append(t.steps, "write_record"))
    IN  TokenTransfer(written, a.maker_ata_x, a.vault, a.maker, args.amount, a.signers,
                      "deposit")

\* MakeOfferInstruction::try_from(...)?.process()
MakeOfferInstruction(l, a) ==
    MakeOfferProcess(Validated(MakeOfferInstructionTryFrom(l, a)), a)

----------------------------------------------------------------------------
(* Accept: instructions/accept.rs                                          *)

\* AcceptOfferAccounts::try_from without the checks of the record account
AcceptOfferAccountsTryFrom_NoRecordCheck(l, a) ==
    IF a.n # 12 THEN "NotEnoughAccountKeys"
    ELSE IF a.taker \notin a.signers THEN "MissingRequiredSignature"
    ELSE IF l.owner[a.mint_x] # TOKEN_ID \/ l.owner[a.mint_y] # TOKEN_ID
      THEN "InvalidAccountOwner"
    ELSE IF l.len[a.mint_x] # MintLEN \/ l.len[a.mint_y] # MintLEN
      THEN "InvalidAccountOwner"
    ELSE IF AtaAddress(a.taker, a.mint_y) # a.taker_ata_y THEN "InvalidAccountData"
    ELSE "none"

\* AcceptOfferAccounts::try_from; "none" when the accounts are accepted
AcceptOfferAccountsTryFrom(l, a) ==
    IF a.n # 12 THEN "NotEnoughAccountKeys"
    ELSE IF a.taker \notin a.signers THEN "MissingRequiredSignature"
    ELSE IF l.owner[a.escrow] # ESCROW_ID THEN "InvalidAccountOwner"
    ELSE IF l.len[a.escrow] # EscrowLEN THEN "InvalidAccountData"
    ELSE IF l.owner[a.mint_x] # TOKEN_ID \/ l.owner[a.mint_y] # TOKEN_ID
      THEN "InvalidAccountOwner"
    ELSE IF l.len[a.mint_x] # MintLEN \/ l.len[a.mint_y] # MintLEN
      THEN "InvalidAccountOwner"
    ELSE IF AtaAddress(a.taker, a.mint_y) # a.taker_ata_y THEN "InvalidAccountData"
    ELSE "none"

\* Create, invoked when the data length of the probed account is not that
\* of a token account
CreateIfMissing(r, probed, funding_account, account, wallet, mint, signers, step) ==
    IF ~r.ok THEN r
    ELSE IF r.l.len[probed] # TokenAccountLEN
      THEN AtaCreate(r, funding_account, account, wallet, mint, signers, step)
    ELSE r

\* AcceptOfferInstruction::try_from: validation, then creation of the
\* holding accounts whose data length is not that of a token account
AcceptOfferInstructionTryFrom(l, a) ==
    LET accErr == AcceptOfferAccountsTryFrom(l, a)
        checked == IF accErr # "none" THEN Err(accErr, l, <<>>)
                   ELSE IF l.owner[a.taker_ata_x] # TOKEN_ID \/ l.owner[a.maker_ata_y] # TOKEN_ID
                     THEN Err("InvalidAccountOwner", l, <<>>)
                   ELSE IF AtaAddress(a.taker, a.mint_x) # a.taker_ata_x
                     THEN Err("InvalidAccountData", l, <<>>)
                   ELSE IF AtaAddress(a.maker, a.mint_y) # a.maker_ata_y
                     THEN Err("InvalidAccountData", l, <<>>)
                   ELSE Ok(l, <<>>)
        c1 == CreateIfMissing(checked, a.taker_ata_x, a.taker, a.taker_ata_x, a.taker,
                              a.mint_x, a.signers, "create_taker_ata_x")
    IN  CreateIfMissing(c1, a.maker_ata_y, a.taker, a.taker_ata_x, a.taker,
                        a.mint_x, a.signers, "create_maker_ata_y")

\* vault.lamports(), the amount Accept and Refund give to the transfer out
\* of the custody account
CustodyAmount(l, vault) == l.lamports[vault]

\* the address that signs the invocations of AcceptOfferInstruction::process
AcceptSigner(l, a) ==
    CreateProgramAddress(<<"escrow">> \o AsRef(a.maker) \o U8Seed(l.escrow[a.escrow].bump),
                         ESCROW_ID)

\* the direct lamport move that closes the record account
CloseRecord(r, escrow, maker) ==
    IF ~r.ok THEN r
    ELSE Ok([r.l EXCEPT !.lamports[maker] = @ + r.l.lamports[escrow],
                        !.lamports[escrow] = 0], Append(r.steps, "close_record"))

\* AcceptOfferInstruction::process that reclaims the record account first
AcceptOfferProcess_RecordFirst(t, a) ==
    LET signers == a.signers \cup {AcceptSigner(t.l, a)}
        loaded == IF ~t.ok THEN t
                  ELSE IF t.l.len[a.escrow] # EscrowLEN
                    THEN Err("InvalidAccountData", t.l, t.steps)
                  ELSE t
        d == CloseRecord(loaded, a.escrow, a.maker)
        t1 == TokenTransfer(d, a.taker_ata_y, a.maker_ata_y, a.taker,
                            t.l.escrow[a.escrow].receive, a.signers, "pay_maker")
        t2 == TokenTransfer(t1, a.vault, a.taker_ata_x, a.escrow,
                            CustodyAmount(t.l, a.vault), signers, "pay_out_custody")
    IN  TokenCloseAccount(t2, a.vault, a.maker, a.escrow, signers, "close_custody")

\* AcceptOfferInstruction::process, on what try_from has built.  The amount
\* of the custody transfer is vault.lamports(); the transfer before it moves
\* tokens and no lamports.
AcceptOfferProcess(t, a) ==
    LET signers == a.signers \cup {AcceptSigner(t.l, a)}
        loaded == IF ~t.ok THEN t
                  ELSE IF t.l.len[a.escrow] # EscrowLEN
                    THEN Err("InvalidAccountData", t.l, t.steps)
                  ELSE t
        t1 == TokenTransfer(loaded, a.taker_ata_y, a.maker_ata_y, a.taker,
                            t.l.escrow[a.escrow].receive, a.signers, "pay_maker")
        t2 == TokenTransfer(t1, a.vault, a.taker_ata_x, a.escrow,
                            CustodyAmount(t.l, a.vault), signers, "pay_out_custody")
        c == TokenCloseAccount(t2, a.vault, a.maker, a.escrow, signers, "close_custody")
    IN  CloseRecord(c, a.escrow, a.maker)

\* AcceptOfferInstruction::try_from(accounts)?.process()
AcceptOfferInstruction(l, a) ==
    AcceptOfferProcess(Validated(AcceptOfferInstructionTryFrom(l, a)), a)

----------------------------------------------------------------------------
(* Refund: instructions/refund.rs                                          *)

\* RefundAccounts::try_from; "none" when the accounts are accepted
RefundAccountsTryFrom(l, a) ==
    IF a.n # 7 THEN "NotEnoughAccountKeys"
    ELSE IF a.maker \notin a.signers THEN "MissingRequiredSignature"
    ELSE IF l.owner[a.escrow] # ESCROW_ID THEN "InvalidAccountOwner"
    ELSE IF l.owner[a.mint_x] # TOKEN_ID THEN "InvalidAccountOwner"
    ELSE IF l.len[a.mint_x] # MintLEN THEN "InvalidAccountData"
    ELSE IF l.len[a.escrow] = 0 THEN "UninitializedAccount"
    ELSE IF AtaAddress(a.maker, a.mint_x) # a.maker_ata_x THEN "InvalidAccountData"
    ELSE IF AtaAddress(a.escrow, a.mint_x) # a.vault THEN "InvalidAccountData"
    ELSE "none"

\* RefundInstruction::try_from without the comparison of the record address
RefundInstructionTryFrom_NoDerivedCheck(l, a) ==
    LET accErr == RefundAccountsTryFrom(l, a)
    IN  IF accErr # "none" THEN Err(accErr, l, <<>>)
        ELSE Ok(l, <<>>)

\* RefundInstruction::try_from
RefundInstructionTryFrom(l, a) ==
    LET accErr == RefundAccountsTryFrom(l, a)
    IN  IF accErr # "none" THEN Err(accErr, l, <<>>)
        ELSE IF a.escrow # EscrowPda(a.maker, a.mint_x).key
          THEN Err("InvalidAccountData", l, <<>>)
        ELSE Ok(l, <<>>)

\* the bump RefundInstruction::try_from keeps for process
RefundBump(a) == EscrowPda(a.maker, a.mint_x).bump

\* the address that signs the invocations of RefundInstruction::process
RefundSigner(a) ==
    CreateProgramAddress(<<"escrow">> \o AsRef(a.maker) \o U8Seed(RefundBump(a)), ESCROW_ID)

\* RefundInstruction::process that zeroes the record before it pays out
RefundProcess_ZeroesRecord(t, a) ==
    LET signers == a.signers \cup {RefundSigner(a)}
        z == IF ~t.ok THEN t
             ELSE Ok([t.l EXCEPT !.escrow[a.escrow] = ZeroEscrow], t.steps)
        t1 == TokenTransfer(z, a.vault, a.maker_ata_x, a.mint_x,
                            CustodyAmount(t.l, a.vault), signers, "pay_out_custody")
        c == TokenCloseAccount(t1, a.vault, a.maker, a.escrow, signers, "close_custody")
    IN  CloseRecord(c, a.escrow, a.maker)

\* RefundInstruction::process, on what try_from has built
RefundProcess(t, a) ==
    LET signers == a.signers \cup {RefundSigner(a)}
        t1 == TokenTransfer(t, a.vault, a.maker_ata_x, a.mint_x,
                            CustodyAmount(t.l, a.vault), signers, "pay_out_custody")
        c == TokenCloseAccount(t1, a.vault, a.maker, a.escrow, signers, "close_custody")
    IN  CloseRecord(c, a.escrow, a.maker)

\* RefundInstruction::try_from(accounts)?.process()
RefundInstruction(l, a) ==
    RefundProcess(Validated(RefundInstructionTryFrom(l, a)), a)

----------------------------------------------------------------------------
(* processor.rs                                                            *)

\* the `_` arm of the match
NoOperation(l) == [Err("InvalidInstructionData", l, <<>>) EXCEPT !.phase = "dispatch"]

\* the match of process_instruction on the first byte of the data
Dispatch(l, a) ==
    IF a.data = <<>> THEN NoOperation(l)
    ELSE IF Head(a.data) = MAKE_DISCRIMINATOR
      THEN MakeOfferInstruction(l, [a EXCEPT !.data = Tail(a.data)])
    ELSE IF Head(a.data) = ACCEPT_DISCRIMINATOR
      THEN AcceptOfferInstruction(l, a)
    ELSE IF Head(a.data) = REFUND_DISCRIMINATOR
      THEN RefundInstruction(l, a)
    ELSE NoOperation(l)

\* process_instruction that binds the errors of try_from to `_` as well
ReturnValue_DropsValidation(d) ==
    [ok |-> TRUE, err |-> "none", failed |-> d.phase, dropped |-> d.err,
     cpi |-> d.cpi, l |-> d.l, steps |-> d.steps]

\* what process_instruction returns for the value d of its match: an error
\* of try_from has left the function by `?`; any other value, the result of
\* process included, is bound to `_` and Ok(()) is returned.  failed = the
\* phase in which the operation failed, dropped = the error that was bound
\* to `_`.
ReturnValue(d) ==
    IF d.phase = "validate"
      THEN [ok |-> FALSE, err |-> d.err, failed |-> "validate", dropped |-> "none",
            cpi |-> d.cpi, l |-> d.l, steps |-> d.steps]
      ELSE [ok |-> TRUE, err |-> "none", failed |-> d.phase, dropped |-> d.err,
            cpi |-> d.cpi, l |-> d.l, steps |-> d.steps]

\* process_instruction: what the caller gets back (ok, err) and the ledger
\* the program leaves behind
ProcessInstruction(l, a) ==
    ReturnValue(IF a.program_id # ESCROW_ID
                  THEN Validated(Err("IncorrectProgramId", l, <<>>))
                  ELSE Dispatch(l, a))

----------------------------------------------------------------------------
(* The requests a client can send                                          *)

Amounts == 0..MaxAmount

\* Make payloads: the deposit in either byte order, the receive amount
\* little-endian; and a payload of the wrong length
MakePayloads ==
    {ToBeBytes(d) \o ToLeBytes(r) : d \in Amounts, r \in Amounts \ {0}}
    \cup {ToLeBytes(d) \o ToLeBytes(r) : d \in Amounts, r \in Amounts \ {0}}
    \cup {ToLeBytes(1)}

\* a well-formed Make request and the requests that differ from it in one place
MakeRequest(maker, mint_x, mint_y, payload) ==
    [program_id |-> ESCROW_ID, data |-> <<MAKE_DISCRIMINATOR>> \o payload, n |-> 9,
     signers |-> {maker}, maker |-> maker, escrow |-> EscrowPda(maker, mint_x).key,
     mint_x |-> mint_x, mint_y |-> mint_y, maker_ata_x |-> AtaAddress(maker, mint_x),
     vault |-> AtaAddress(EscrowPda(maker, mint_x).key, mint_x)]

MakeVariants(b) ==
    {b,
     [b EXCEPT !.signers = {}],
     [b EXCEPT !.mint_y = b.maker],
     [b EXCEPT !.maker_ata_x = AtaAddress(b.maker, OtherMint(b.mint_x))],
     [b EXCEPT !.escrow = EscrowPda(OtherWallet(b.maker), b.mint_x).key],
     [b EXCEPT !.vault = AtaAddress(b.escrow, OtherMint(b.mint_x))],
     [b EXCEPT !.escrow = EscrowPda(OtherWallet(b.maker), b.mint_x).key,
               !.vault = AtaAddress(EscrowPda(OtherWallet(b.maker), b.mint_x).key, b.mint_x)]}

\* a request sent to another program id, or with an account too few
Misdirected(b) == {[b EXCEPT !.program_id = TOKEN_ID], [b EXCEPT !.n = b.n - 1]}

\* the same requests with no signature
Unsigned(S) == {[b EXCEPT !.signers = {}] : b \in S}

\* every payload in a well-formed request of the wallet that can pay for the
\* accounts; the other requests with one payload
SignedMakeInputs ==
    {MakeRequest(Key("A"), x, OtherMint(x), p) : x \in Mints, p \in MakePayloads}
    \cup UNION {MakeVariants(MakeRequest(m, x, OtherMint(x), ToBeBytes(1) \o ToLeBytes(1))) :
                  m \in Wallets, x \in Mints}

\* and, with no signature, every payload and every variant of one request
MakeInputs ==
    SignedMakeInputs
    \cup Unsigned({MakeRequest(Key("A"), Key("X"), Key("Y"), p) : p \in MakePayloads})
    \cup Unsigned(MakeVariants(MakeRequest(Key("A"), Key("X"), Key("Y"),
                                           ToBeBytes(1) \o ToLeBytes(1))))
    \cup Misdirected(MakeRequest(Key("A"), Key("X"), Key("Y"), ToBeBytes(1) \o ToLeBytes(1)))

\* a well-formed Accept request and the requests that differ from it
AcceptRequest(taker, maker, mint_x, mint_y) ==
    [program_id |-> ESCROW_ID, data |-> <<ACCEPT_DISCRIMINATOR>>, n |-> 12,
     signers |-> {taker}, taker |-> taker, maker |-> maker,
     escrow |-> EscrowPda(maker, mint_x).key, mint_x |-> mint_x, mint_y |-> mint_y,
     vault |-> AtaAddress(EscrowPda(maker, mint_x).key, mint_x),
     taker_ata_x |-> AtaAddress(taker, mint_x), taker_ata_y |-> AtaAddress(taker, mint_y),
     maker_ata_y |-> AtaAddress(maker, mint_y)]

AcceptVariants(b) ==
    {b,
     [b EXCEPT !.signers = {}],
     [b EXCEPT !.mint_x = b.maker],
     [b EXCEPT !.mint_y = b.mint_x, !.taker_ata_y = b.taker_ata_x,
               !.maker_ata_y = AtaAddress(b.maker, b.mint_x)],
     [b EXCEPT !.taker_ata_x = AtaAddress(b.taker, OtherMint(b.mint_x))],
     [b EXCEPT !.taker_ata_y = AtaAddress(b.taker, OtherMint(b.mint_y))],
     [b EXCEPT !.maker_ata_y = AtaAddress(b.maker, OtherMint(b.mint_y))],
     [b EXCEPT !.escrow = EscrowPda(OtherWallet(b.maker), b.mint_x).key],
     [b EXCEPT !.escrow = EscrowPda(b.maker, OtherMint(b.mint_x)).key],
     [b EXCEPT !.vault = AtaAddress(b.escrow, OtherMint(b.mint_x))],
     [b EXCEPT !.escrow = EscrowPda(OtherWallet(b.maker), b.mint_x).key,
               !.vault = AtaAddress(EscrowPda(OtherWallet(b.maker), b.mint_x).key, b.mint_x)]}

\* the taker is another wallet than the maker, or the maker itself in a
\* well-formed request
SignedAcceptInputs ==
    UNION {AcceptVariants(AcceptRequest(OtherWallet(m), m, x, OtherMint(x))) :
             m \in Wallets, x \in Mints}
    \cup {AcceptRequest(m, m, x, OtherMint(x)) : m \in Wallets, x \in Mints}

AcceptInputs ==
    SignedAcceptInputs
    \cup Unsigned(AcceptVariants(AcceptRequest(Key("B"), Key("A"), Key("X"), Key("Y"))))
    \cup Misdirected(AcceptRequest(Key("B"), Key("A"), Key("X"), Key("Y")))

\* a well-formed Refund request and the requests that differ from it
RefundRequest(maker, mint_x) ==
    [program_id |-> ESCROW_ID, data |-> <<REFUND_DISCRIMINATOR>>, n |-> 7,
     signers |-> {maker}, maker |-> maker, escrow |-> EscrowPda(maker, mint_x).key,
     mint_x |-> mint_x, maker_ata_x |-> AtaAddress(maker, mint_x),
     vault |-> AtaAddress(EscrowPda(maker, mint_x).key, mint_x)]

RefundVariants(b) ==
    {b,
     [b EXCEPT !.signers = {}],
     [b EXCEPT !.signers = {OtherWallet(b.maker)}],
     [b EXCEPT !.mint_x = b.maker],
     [b EXCEPT !.maker_ata_x = AtaAddress(b.maker, OtherMint(b.mint_x))],
     [b EXCEPT !.escrow = EscrowPda(OtherWallet(b.maker), b.mint_x).key],
     [b EXCEPT !.vault = AtaAddress(b.escrow, OtherMint(b.mint_x))],
     [b EXCEPT !.escrow = EscrowPda(OtherWallet(b.maker), b.mint_x).key,
               !.vault = AtaAddress(EscrowPda(OtherWallet(b.maker), b.mint_x).key, b.mint_x)]}

SignedRefundInputs ==
    UNION {RefundVariants(RefundRequest(m, x)) : m \in Wallets, x \in Mints}

RefundInputs ==
    SignedRefundInputs
    \cup Unsigned(RefundVariants(RefundRequest(Key("A"), Key("X"))))
    \cup Misdirected(RefundRequest(Key("A"), Key("X")))

\* requests with no data, or with a selector that names no operation
OtherInputs == {[program_id |-> ESCROW_ID, data |-> d] : d \in {<<>>, <<3>>, <<3, 0>>}}

----------------------------------------------------------------------------
(* pinocchio_vault: lib.rs and instructions/deposite.rs                    *)

\* find_program_address(&[b"vault", owner.key()], &crate::ID).0
VaultPda(owner) == FindProgramAddress(<<"vault">> \o AsRef(owner), VAULT_ID).key

\* the accounts of the vault model: the wallets, their vaults, a mint (an
\* account the token program owns) and an address no account exists at
NoAccount == Key("Z")
BankAddrs == Wallets \cup {VaultPda(w) : w \in Wallets} \cup {Key("X"), NoAccount}

InitBank ==
    [lamports |-> [a \in BankAddrs |-> IF a \in Wallets THEN VaultFunds
                                       ELSE IF a = Key("X") THEN 1 ELSE 0],
     owner |-> [a \in BankAddrs |-> IF a = Key("X") THEN TOKEN_ID ELSE SYSTEM_ID]]

\* pinocchio_system Transfer
SystemTransfer(b, from, to, lamports, signers) ==
    IF from \notin signers THEN [ok |-> FALSE, err |-> "PrivilegeEscalation", b |-> b]
    ELSE IF b.owner[from] # SYSTEM_ID THEN [ok |-> FALSE, err |-> "InvalidArgument", b |-> b]
    ELSE IF b.lamports[from] < lamports
      THEN [ok |-> FALSE, err |-> "InsufficientLamports", b |-> b]
    ELSE [ok |-> TRUE, err |-> "none",
          b |-> [b EXCEPT !.lamports[from] = @ - lamports, !.lamports[to] = @ + lamports]]

\* DepositAccounts::try_from without the check of the vault's balance
DepositAccountsTryFrom_NoBalanceCheck(b, a) ==
    IF a.n # 3 THEN "NotEnoughAccountKeys"
    ELSE IF a.owner \notin a.signers THEN "InvalidAccountOwner"
    ELSE IF b.owner[a.vault] # SYSTEM_ID THEN "InvalidAccountOwner"
    ELSE IF VaultPda(a.owner) # a.vault THEN "InvalidAccountOwner"
    ELSE "none"

\* DepositAccounts::try_from; "none" when the accounts are accepted
DepositAccountsTryFrom(b, a) ==
    IF a.n # 3 THEN "NotEnoughAccountKeys"
    ELSE IF a.owner \notin a.signers THEN "InvalidAccountOwner"
    ELSE IF b.owner[a.vault] # SYSTEM_ID THEN "InvalidAccountOwner"
    ELSE IF b.lamports[a.vault] # 0 THEN "InvalidAccountData"
    ELSE IF VaultPda(a.owner) # a.vault THEN "InvalidAccountOwner"
    ELSE "none"

\* DepositInstructionData::try_from
DepositInstructionDataTryFrom(data) ==
    IF Len(data) # U64Bytes THEN [err |-> "InvalidInstructionData", amount |-> 0]
    ELSE IF FromLeBytes(data) = 0 THEN [err |-> "InvalidInstructionData", amount |-> 0]
    ELSE [err |-> "none", amount |-> FromLeBytes(data)]

\* Deposit::try_from((data, accounts))?.process()
Deposit(b, a, data) ==
    IF DepositAccountsTryFrom(b, a) # "none"
      THEN [ok |-> FALSE, err |-> DepositAccountsTryFrom(b, a), b |-> b]
    ELSE IF DepositInstructionDataTryFrom(data).err # "none"
      THEN [ok |-> FALSE, err |-> DepositInstructionDataTryFrom(data).err, b |-> b]
    ELSE SystemTransfer(b, a.owner, a.vault, DepositInstructionDataTryFrom(data).amount,
                        a.signers)

\* process_instruction of the vault program.  The arm of Withdraw is left
\* out: instructions/withdraw.rs is not part of the sources, and no request
\* with another selector than Deposit's is sent.
VaultProcessInstruction(b, a) ==
    IF a.data # <<>> /\ Head(a.data) = DEPOSIT_DISCRIMINATOR
      THEN Deposit(b, a, Tail(a.data))
      ELSE [ok |-> FALSE, err |-> "InvalidInstructionData", b |-> b]

\* the data of a Deposit request: an amount, little-endian; the amount 1
\* big-endian; seven bytes; nothing
DepositPayloads ==
    {ToLeBytes(v) : v \in 0..MaxAmount + 1}
    \cup {ToBeBytes(1), SubSeq(ToLeBytes(1), 1, U64Bytes - 1), <<>>}

\* a Deposit request of wallet w
DepositRequest(w, vault, signers, n, payload) ==
    [data |-> <<DEPOSIT_DISCRIMINATOR>> \o payload, n |-> n, owner |-> w, vault |-> vault,
     signers |-> signers]

DepositInputs ==
    UNION {{DepositRequest(w, v, s, 3, p) :
               v \in BankAddrs \ {w}, s \in {{}, {w}}, p \in DepositPayloads} :
             w \in Wallets}
    \cup {DepositRequest(w, VaultPda(w), {w}, n, ToLeBytes(1)) : w \in Wallets, n \in {2, 4}}

\* what is remembered of a call of the vault program: what the caller got
\* back and, of the request and the accounts before the call, each condition
\* of DepositAccounts::try_from and DepositInstructionData::try_from
NoDeposit ==
    [op |-> "none", ok |-> TRUE, err |-> "none", framed |-> FALSE, signed |-> FALSE,
     systemOwned |-> FALSE, empty |-> FALSE, derived |-> FALSE, dataOk |-> FALSE,
     amount |-> 0, owner |-> ZeroKey, vault |-> ZeroKey]

DepositRecord(a, o) ==
    [op |-> "deposit", ok |-> o.ok, err |-> o.err,
     framed |-> a.n = 3,
     signed |-> a.owner \in a.signers,
     systemOwned |-> bank.owner[a.vault] = SYSTEM_ID,
     empty |-> bank.lamports[a.vault] = 0,
     derived |-> a.vault = VaultPda(a.owner),
     dataOk |-> Len(a.data) = 1 + U64Bytes /\ FromLeBytes(Tail(a.data)) # 0,
     amount |-> IF Len(a.data) = 1 + U64Bytes THEN FromLeBytes(Tail(a.data)) ELSE 0,
     owner |-> a.owner, vault |-> a.vault]

----------------------------------------------------------------------------
(* State, initial state and the transactions                               *)

\* the wallet that can pay for one record account and one custody account,
\* and the wallet that can pay for a token account only
InitLamports(w) == IF w = Key("A") THEN EscrowRent + TokenRent ELSE TokenRent

\* before the first call: two wallets, two mints, and every wallet's holding
\* account of every mint, each with InitTokens
InitLedger ==
    [lamports |-> [a \in Addrs |-> IF a \in Wallets THEN InitLamports(a)
                                   ELSE IF a \in Mints THEN EscrowRent
                                   ELSE IF a \in WalletAtas THEN TokenRent
                                   ELSE 0],
     owner |-> [a \in Addrs |-> IF a \in Mints \cup WalletAtas THEN TOKEN_ID ELSE SYSTEM_ID],
     len |-> [a \in Addrs |-> IF a \in Mints THEN MintLEN
                              ELSE IF a \in WalletAtas THEN TokenAccountLEN
                              ELSE 0],
     token |-> [a \in TokenAddrs |->
                  IF a \in WalletAtas
                    THEN CHOOSE t \in [mint : Mints, owner : Wallets, amount : {InitTokens}] :
                           AtaAddress(t.owner, t.mint) = a
                    ELSE ZeroToken],
     escrow |-> [a \in EscrowAddrs |-> ZeroEscrow]]

NoCall ==
    [op |-> "none", ok |-> TRUE, err |-> "none", failed |-> "none", aborted |-> FALSE,
     steps |-> <<>>, signed |-> FALSE, recordOk |-> FALSE, vaultOk |-> FALSE,
     recordOpen |-> FALSE, wellFormed |-> FALSE, canPay |-> FALSE,
     reached |-> FALSE, servedBefore |-> FALSE, repeat |-> FALSE,
     tried |-> <<>>, framed |-> FALSE, zeroDeposit |-> FALSE, amount |-> 0, receive |-> 0,
     argsOk |-> FALSE, occupied |-> FALSE, minted |-> FALSE,
     missing |-> {}, created |-> {}, amountLe |-> 0, receiveBe |-> 0,
     actor |-> ZeroKey, maker |-> ZeroKey, escrow |-> ZeroKey, vault |-> ZeroKey,
     mint_x |-> ZeroKey, mint_y |-> ZeroKey, signer |-> ZeroKey, authority |-> ZeroKey]

\* the ledger l in which the accounts of S do not exist
Without(l, S) ==
    [lamports |-> [a \in Addrs |-> IF a \in S THEN 0 ELSE l.lamports[a]],
     owner |-> [a \in Addrs |-> IF a \in S THEN SYSTEM_ID ELSE l.owner[a]],
     len |-> [a \in Addrs |-> IF a \in S THEN 0 ELSE l.len[a]],
     token |-> [a \in TokenAddrs |-> IF a \in S THEN ZeroToken ELSE l.token[a]],
     escrow |-> l.escrow]

\* the holding accounts an Accept of B on a record of A for asset X may find
\* missing: the taker's of asset X, the maker's of asset Y
MissingHoldings ==
    {{AtaAddress(Key("B"), Key("X"))}, {AtaAddress(Key("A"), Key("Y"))}}

Init ==
    /\ ledger = InitLedger
    /\ last = NoCall
    /\ served = [e \in EscrowAddrs |-> FALSE]
    /\ bank = InitBank
    /\ call = NoDeposit

\* the request names the accounts its own parameters derive and, for Accept,
\* the maker and the asset classes of the record
WellFormed(op, a) ==
    IF op = "make" THEN a = MakeRequest(a.maker, a.mint_x, a.mint_y, Tail(a.data))
    ELSE IF op = "refund" THEN a = RefundRequest(a.maker, a.mint_x)
    ELSE /\ a = AcceptRequest(a.taker, a.maker, a.mint_x, a.mint_y)
         /\ RecordOpen(ledger, a.escrow) =>
               /\ ledger.escrow[a.escrow].maker = a.maker
               /\ ledger.escrow[a.escrow].mint_x = a.mint_x
               /\ ledger.escrow[a.escrow].mint_y = a.mint_y

\* the taker holds the amount of asset Y the record asks for
CanPay(op, a) ==
    /\ op = "accept"
    /\ a.escrow \in EscrowAddrs /\ a.taker_ata_y \in TokenAddrs
    /\ IsTokenAccount(ledger, a.taker_ata_y)
    /\ ledger.token[a.taker_ata_y].amount >= ledger.escrow[a.escrow].receive

\* the number of accounts the operation takes
AccountsLen(op) == IF op = "make" THEN 9 ELSE IF op = "accept" THEN 12 ELSE 7

\* the amounts the data of a Make request holds when its deposit field is read
\* little-endian and its receive field big-endian, the byte orders
\* MakeOfferArgs::try_from does not use for them
OtherByteOrder(op, a) ==
    IF op = "make" /\ Len(a.data) = 1 + 2 * U64Bytes
      THEN [amount |-> FromLeBytes(SubSeq(a.data, 2, 1 + U64Bytes)),
            receive |-> FromBeBytes(SubSeq(a.data, 2 + U64Bytes, 1 + 2 * U64Bytes))]
      ELSE [amount |-> 0, receive |-> 0]

\* the amounts MakeOfferArgs::try_from reads in the data of a Make request
RequestedArgs(op, a) ==
    IF op = "make" /\ a.data # <<>>
      THEN MakeOfferArgsTryFrom(Tail(a.data))
      ELSE [err |-> "none", receive |-> 0, amount |-> 0]

\* what is remembered of a call: the operation, what the caller got back,
\* where the operation failed, the steps that were kept, and of the request:
\* whether the acting party signed, whether the record and custody addresses
\* are the derived ones, whether the record account held a record, and (once
\* try_from has accepted the request) the accounts it names, the address its
\* signer seeds derive and the authority of its custody transfer; tried = the
\* steps try_from had performed when it returned an error, framed = the
\* request has the program id and the number of accounts of the operation,
\* zeroDeposit = the data of a Make has the right length and a deposit of 0,
\* amount and receive = the amounts of a Make that try_from accepted,
\* argsOk = MakeOfferArgs::try_from accepts the data, occupied = the record
\* account or the custody account of the request held data, minted = both
\* asset classes of a Make are token mints; missing = the holding accounts
\* (taker's of asset X, maker's of asset Y) that an Accept request names and
\* that are no token accounts, each with the wallet and the mint it is the
\* holding account of; created = the token accounts the Accept has created;
\* amountLe and receiveBe = the amounts of an accepted Make in the other byte
\* order
HoldingsOf(a) ==
    {[account |-> a.taker_ata_x, wallet |-> a.taker, mint |-> a.mint_x],
     [account |-> a.maker_ata_y, wallet |-> a.maker, mint |-> a.mint_y]}

MissingOf(op, a) ==
    IF op # "accept" THEN {}
    ELSE {h \in HoldingsOf(a) : h.account \in TokenAddrs /\ ~IsTokenAccount(ledger, h.account)}

CreatedBy(op, o) ==
    IF op # "accept" THEN {}
    ELSE {[account |-> t, wallet |-> o.l.token[t].owner, mint |-> o.l.token[t].mint] :
            t \in {u \in TokenAddrs : ~IsTokenAccount(ledger, u) /\ IsTokenAccount(o.l, u)}}

CallRecord(op, a, o, aborted) ==
    LET actor == IF op = "accept" THEN a.taker ELSE a.maker
        reached == o.failed # "validate"
        ok == o.ok /\ ~aborted
        servedBefore == op # "make" /\ a.escrow \in EscrowAddrs /\ served[a.escrow]
    IN  [op |-> op, ok |-> ok, err |-> IF aborted THEN o.dropped ELSE o.err,
         failed |-> o.failed, aborted |-> aborted,
         steps |-> IF ok THEN o.steps ELSE <<>>,
         signed |-> actor \in a.signers,
         recordOk |-> a.escrow = EscrowPda(a.maker, a.mint_x).key,
         vaultOk |-> a.vault = AtaAddress(a.escrow, a.mint_x),
         recordOpen |-> RecordOpen(ledger, a.escrow),
         wellFormed |-> WellFormed(op, a),
         canPay |-> CanPay(op, a),
         reached |-> reached,
         servedBefore |-> servedBefore,
         repeat |-> ok /\ servedBefore,
         tried |-> IF o.failed = "validate" THEN o.steps ELSE <<>>,
         framed |-> a.program_id = ESCROW_ID /\ a.n = AccountsLen(op),
         zeroDeposit |-> /\ op = "make" /\ Len(a.data) = 1 + 2 * U64Bytes
                         /\ RequestedArgs(op, a).amount = 0,
         amount |-> IF reached THEN RequestedArgs(op, a).amount ELSE 0,
         receive |-> IF reached THEN RequestedArgs(op, a).receive ELSE 0,
         argsOk |-> RequestedArgs(op, a).err = "none",
         occupied |-> ledger.len[a.escrow] > 0 \/ ledger.len[a.vault] > 0,
         minted |-> op = "make" /\ IsMint(ledger, a.mint_x) /\ IsMint(ledger, a.mint_y),
         missing |-> MissingOf(op, a),
         created |-> CreatedBy(op, o),
         amountLe |-> IF reached THEN OtherByteOrder(op, a).amount ELSE 0,
         receiveBe |-> IF reached THEN OtherByteOrder(op, a).receive ELSE 0,
         actor |-> IF reached THEN actor ELSE ZeroKey,
         maker |-> IF reached THEN a.maker ELSE ZeroKey,
         escrow |-> IF reached THEN a.escrow ELSE ZeroKey,
         vault |-> IF reached THEN a.vault ELSE ZeroKey,
         mint_x |-> IF reached THEN a.mint_x ELSE ZeroKey,
         mint_y |-> IF reached /\ op # "refund" THEN a.mint_y ELSE ZeroKey,
         signer |-> IF ~reached \/ op = "make" THEN ZeroKey
                    ELSE IF op = "accept" THEN AcceptSigner(ledger, a) ELSE RefundSigner(a),
         authority |-> IF ~reached \/ op = "make" THEN ZeroKey
                       ELSE IF op = "accept" THEN a.escrow ELSE a.mint_x]

\* served[e]: an Accept or a Refund on record e has returned Ok since the
\* Make that opened e
Served(op, a, ok) ==
    IF ~ok \/ a.escrow \notin EscrowAddrs THEN served
    ELSE [served EXCEPT ![a.escrow] = (op # "make")]

\* one transaction made of one call whose outcome is o: the ledger of the
\* program is kept when it returns Ok; it is dropped when it returns Err,
\* and also when the runtime ends the transaction at a failed invocation
\* instead of handing the error back to the program
Transaction(op, a, o) ==
    \/ /\ ledger' = IF o.ok THEN Purge(o.l) ELSE ledger
       /\ last' = CallRecord(op, a, o, FALSE)
       /\ served' = Served(op, a, o.ok)
       /\ UNCHANGED <<bank, call>>
    \/ /\ o.failed = "process" /\ o.cpi
       /\ ledger' = ledger
       /\ last' = CallRecord(op, a, o, TRUE)
       /\ served' = served
       /\ UNCHANGED <<bank, call>>

Make ==
    \E a \in MakeInputs :
        \E o \in {ProcessInstruction(ledger, a)} : Transaction("make", a, o)

Accept ==
    \E a \in AcceptInputs :
        \E o \in {ProcessInstruction(ledger, a)} : Transaction("accept", a, o)

Refund ==
    \E a \in RefundInputs :
        \E o \in {ProcessInstruction(ledger, a)} : Transaction("refund", a, o)

\* a call that names no operation
Other ==
    \E a \in OtherInputs :
        \E o \in {ProcessInstruction(ledger, a)} :
            /\ ledger' = IF o.ok THEN Purge(o.l) ELSE ledger
            /\ last' = [NoCall EXCEPT !.op = "other", !.ok = o.ok, !.err = o.err,
                                      !.failed = o.failed]
            /\ served' = served
            /\ UNCHANGED <<bank, call>>

Next == Make \/ Accept \/ Refund \/ Other

Spec == Init /\ [][Next]_vars

\* the same program started on a ledger in which one holding account does
\* not exist
InitHoldings ==
    /\ ledger \in {Without(InitLedger, S) : S \in MissingHoldings}
    /\ last = NoCall
    /\ served = [e \in EscrowAddrs |-> FALSE]
    /\ bank = InitBank
    /\ call = NoDeposit

SpecHoldings == InitHoldings /\ [][Next]_vars

\* one call of the vault program's Deposit in one transaction
DepositCall ==
    \E a \in DepositInputs :
        \E o \in {VaultProcessInstruction(bank, a)} :
            /\ bank' = IF o.ok THEN o.b ELSE bank
            /\ call' = DepositRecord(a, o)
            /\ UNCHANGED <<ledger, last, served>>

\* a call of the vault program with no data
EmptyCall ==
    \E o \in {VaultProcessInstruction(bank, [data |-> <<>>])} :
        /\ bank' = IF o.ok THEN o.b ELSE bank
        /\ call' = [NoDeposit EXCEPT !.op = "other", !.ok = o.ok, !.err = o.err]
        /\ UNCHANGED <<ledger, last, served>>

NextVault == DepositCall \/ EmptyCall

SpecVault == Init /\ [][NextVault]_vars

----------------------------------------------------------------------------
(* Properties                                                              *)

Ops == {"make", "accept", "refund"}

Range(q) == {q[i] : i \in 1..Len(q)}

\* the steps an operation is made of
RequiredSteps(op) ==
    IF op = "make" THEN {"create_record", "create_custody", "write_record", "deposit"}
    ELSE IF op = "accept" THEN {"pay_maker", "pay_out_custody", "close_custody", "close_record"}
    ELSE {"pay_out_custody", "close_custody", "close_record"}

TokenBalance(l, a) == l.token[a].amount

\* C1: every operation is all-or-nothing: after a call of Make, Accept or
\* Refund either every step of the operation has taken effect or none has;
\* in particular Accept never leaves the taker's asset Y paid to the maker
\* with the custody asset X not paid out to the taker.
C1_AllOrNothing ==
    last.op \in Ops =>
        /\ last.steps = <<>> \/ RequiredSteps(last.op) \subseteq Range(last.steps)
        /\ (last.op = "accept" /\ "pay_maker" \in Range(last.steps))
             => "pay_out_custody" \in Range(last.steps)

\* C2: process_instruction returns an error whenever the dispatched
\* operation failed, in validation or in processing.
C2_FailureIsReported ==
    (last.op \in Ops /\ last.failed # "none") => ~last.ok

\* C3: after a successful Accept on an open record (taker and maker distinct,
\* the record and custody accounts the derived ones) the taker's asset-X
\* balance has grown by the custody balance at call time, the maker's
\* asset-Y balance has grown by receive_amount and the taker's asset-Y
\* balance has shrunk by receive_amount.
C3_AcceptSettles ==
    [][(/\ last'.op = "accept" /\ last'.ok /\ last'.wellFormed /\ last'.recordOpen
        /\ last'.actor # last'.maker)
       => LET taker_ata_x == AtaAddress(last'.actor, last'.mint_x)
              taker_ata_y == AtaAddress(last'.actor, last'.mint_y)
              maker_ata_y == AtaAddress(last'.maker, last'.mint_y)
              receive == ledger.escrow[last'.escrow].receive
          IN  /\ TokenBalance(ledger', taker_ata_x)
                   = TokenBalance(ledger, taker_ata_x) + TokenBalance(ledger, last'.vault)
              /\ TokenBalance(ledger', maker_ata_y) = TokenBalance(ledger, maker_ata_y) + receive
              /\ TokenBalance(ledger', taker_ata_y) = TokenBalance(ledger, taker_ata_y) - receive
      ]_vars

\* C4: after a successful Refund on an open record the maker's asset-X
\* balance has grown by the custody balance at call time and no balance of
\* another asset has changed.
C4_RefundReturnsDeposit ==
    [][(last'.op = "refund" /\ last'.ok /\ last'.wellFormed /\ last'.recordOpen)
       => LET maker_ata_x == AtaAddress(last'.maker, last'.mint_x)
          IN  /\ TokenBalance(ledger', maker_ata_x)
                   = TokenBalance(ledger, maker_ata_x) + TokenBalance(ledger, last'.vault)
              /\ \A a \in TokenAddrs :
                    ledger.token[a].mint # last'.mint_x
                      => TokenBalance(ledger', a) = TokenBalance(ledger, a)
      ]_vars

\* C5: an open record can always be closed: a well-formed Refund signed by
\* the maker succeeds and closes the record, and so does a well-formed Accept
\* of a taker who holds receive_amount of asset Y.
C5_OpenRecordCanBeClosed ==
    (/\ last.op \in {"accept", "refund"}
     /\ last.wellFormed /\ last.signed /\ last.recordOpen
     /\ last.op = "accept" => last.canPay)
    => /\ last.ok /\ last.failed = "none"
       /\ ~RecordOpen(ledger, last.escrow)

C7_ClosedRecordIsUninitialized ==
    (/\ last.op \in {"accept", "refund"}
     /\ last.wellFormed /\ last.signed
     /\ last.servedBefore \/ ~last.recordOpen)
    => (~last.ok /\ last.err = "UninitializedAccount" /\ last.steps = <<>>)

\* C8: of the Accept and Refund calls made on one open record at most one
\* returns Ok.
C8_AtMostOneWinner == ~last.repeat

\* C9: an operation given a record address that is not the one derived from
\* (maker, asset-X class), or a custody address that is not the one derived
\* from (record address, asset-X class), fails in validation and nothing of
\* it is kept.
C9_AddressMismatchRejected ==
    (last.op \in Ops /\ (~last.recordOk \/ ~last.vaultOk))
    => (~last.ok /\ last.failed = "validate" /\ last.steps = <<>>)

\* C10: the custody transfer of Accept and of Refund is authorized by the
\* record's own address, and the address its signer seeds derive is the
\* record address Make derived from (tag, maker, asset-X class, bump).
C10_CustodySignedByRecord ==
    (last.op \in {"accept", "refund"} /\ last.reached /\ last.recordOk)
    => /\ last.authority = last.escrow
       /\ last.signer = last.escrow

\* C11: a record account holds data only while its trade is open: after an
\* Accept or a Refund that returned Ok the record account and the custody
\* account it names have no data and no lamports, and a record account that
\* has data holds the record a Make wrote.
C11_RecordStoredIffOpen ==
    /\ (last.op \in {"accept", "refund"} /\ last.ok)
         => /\ ledger.len[last.escrow] = 0 /\ ledger.lamports[last.escrow] = 0
            /\ ledger.len[last.vault] = 0 /\ ledger.lamports[last.vault] = 0
    /\ \A e \in EscrowAddrs :
         ledger.len[e] > 0 => (RecordOpen(ledger, e) /\ ledger.escrow[e].maker \in Wallets)

\* C12: the custody account of an open record holds the deposit of the Make
\* that opened it: the Make leaves its deposit there, no later call changes
\* the balance while the record stays open, and the amount an Accept or a
\* Refund gives to the transfer out of custody is that asset-X balance.
C12_CustodyHoldsDeposit ==
    [][/\ (last'.op = "make" /\ last'.ok /\ last'.failed = "none")
            => TokenBalance(ledger', last'.vault) = last'.amount
       /\ \A e \in EscrowAddrs :
            (RecordOpen(ledger, e) /\ RecordOpen(ledger', e))
              => TokenBalance(ledger', AtaAddress(e, ledger.escrow[e].mint_x))
                   = TokenBalance(ledger, AtaAddress(e, ledger.escrow[e].mint_x))
       /\ (/\ last'.op \in {"accept", "refund"} /\ last'.reached
           /\ last'.wellFormed /\ last'.recordOpen)
            => CustodyAmount(ledger, last'.vault) = TokenBalance(ledger, last'.vault)
      ]_vars

\* C13: after a Make that ran to its end with deposit d and receive amount r
\* the custody account holds d of asset X, the maker's asset-X holding
\* account holds d less than before, and the record stores r, the maker, both
\* asset classes and the bump of the record address.
C13_MakeOpensRecord ==
    [][(last'.op = "make" /\ last'.ok /\ last'.failed = "none")
         => /\ TokenBalance(ledger', last'.vault) = last'.amount
            /\ TokenBalance(ledger', AtaAddress(last'.maker, last'.mint_x))
                 = TokenBalance(ledger, AtaAddress(last'.maker, last'.mint_x)) - last'.amount
            /\ ledger'.escrow[last'.escrow] =
                 [maker |-> last'.maker, mint_x |-> last'.mint_x, mint_y |-> last'.mint_y,
                  receive |-> last'.receive,
                  bump |-> EscrowPda(last'.maker, last'.mint_x).bump]
      ]_vars

\* a Make has run to its end: its deposit is in custody and the record
\* stores its receive amount
C13_Witness ==
    /\ last.op = "make" /\ last.ok /\ last.failed = "none"
    /\ last.amount > 0 /\ last.receive > last.amount
    /\ TokenBalance(ledger, last.vault) = last.amount
    /\ ledger.escrow[last.escrow].receive = last.receive

\* C14: a Make whose deposit is 0 is rejected, try_from has performed no step
\* (no account allocated or created, nothing transferred) when it rejects,
\* and no account changes.
C14_ZeroDepositRejected ==
    [][(last'.op = "make" /\ last'.zeroDeposit)
         => (~last'.ok /\ last'.failed = "validate" /\ last'.tried = <<>>
             /\ ledger' = ledger)
      ]_vars

\* a signed Make with the right accounts and a deposit of 0 has been rejected
C14_Witness ==
    /\ last.op = "make" /\ last.zeroDeposit /\ last.signed /\ last.wellFormed
    /\ ~last.ok /\ last.err = "InvalidInstructionData"

C16_UnknownSelectorRejected ==
    last.op = "other" => (~last.ok /\ last.err = "InvalidInstructionData")

\* C17: a call of Make, Accept or Refund with the required number of accounts
\* whose acting party (maker for Make and Refund, taker for Accept) has not
\* signed returns MissingRequiredSignature before any step and leaves every
\* account unchanged, whatever the other accounts and the arguments are.
C17_MissingSignatureRejected ==
    [][(last'.op \in Ops /\ last'.framed /\ ~last'.signed)
         => (/\ ~last'.ok /\ last'.err = "MissingRequiredSignature"
             /\ last'.failed = "validate" /\ last'.tried = <<>>
             /\ ledger' = ledger)
      ]_vars

\* an unsigned Make that names an account which is no mint has been rejected
\* for the missing signature, while a record is open
C17_Witness ==
    /\ last.op = "make" /\ last.framed /\ ~last.signed /\ ~last.minted
    /\ ~last.ok /\ last.err = "MissingRequiredSignature"
    /\ \E e \in EscrowAddrs : RecordOpen(ledger, e)

AcceptOrder == <<"pay_maker", "pay_out_custody", "close_custody", "close_record">>

IsAcceptStep(s) == s \in Range(AcceptOrder)

C21_MissingHoldingCreated ==
    [][(/\ last'.op = "accept" /\ last'.signed /\ last'.wellFormed /\ last'.recordOpen
        /\ last'.missing # {})
         => (last'.reached /\ last'.created = last'.missing)
      ]_vars

\* C22: the payload of a Make is decoded with one byte order: the deposit and
\* the receive amount that try_from has read are both the little-endian or
\* both the big-endian value of their eight bytes, so a client that encodes
\* (deposit, receive) in that one order gets amount = deposit and
\* receive = receive.
C22_OneByteOrder ==
    (last.op = "make" /\ last.reached)
      => \/ (last.amount = last.amountLe)
         \/ (last.receive = last.receiveBe)

\* C23: an Accept whose maker account or asset classes differ from the ones
\* stored in the record is rejected by try_from: every Accept that try_from
\* has let through to process names the maker, the asset X class and the
\* asset Y class of the record it is run on.
C23_AcceptNamesRecordMaker ==
    (last.op = "accept" /\ last.reached /\ last.recordOpen /\ RecordOpen(ledger, last.escrow))
      => /\ ledger.escrow[last.escrow].maker = last.maker
         /\ ledger.escrow[last.escrow].mint_x = last.mint_x
         /\ ledger.escrow[last.escrow].mint_y = last.mint_y

\* C24: only the maker who opened a record can refund it.  A Refund that
\* try_from lets through to process on an open record is signed by the maker
\* stored in the record, names the record address derived from that maker and
\* the asset X class and the custody address derived from the record; every
\* other Refund returns an error and leaves all accounts unchanged; and the
\* only holding account a Refund can add asset units to is the asset X
\* holding account of that maker.
C24_OnlyMakerRefunds ==
    [][(last'.op = "refund")
         => /\ (last'.reached /\ last'.recordOpen)
                 => /\ last'.signed
                    /\ ledger.escrow[last'.escrow].maker = last'.maker
                    /\ ledger.escrow[last'.escrow].mint_x = last'.mint_x
                    /\ last'.escrow = EscrowPda(last'.maker, last'.mint_x).key
                    /\ last'.vault = AtaAddress(last'.escrow, last'.mint_x)
            /\ ~last'.reached => (~last'.ok /\ ledger' = ledger)
            /\ \A t \in TokenAddrs :
                 TokenBalance(ledger', t) > TokenBalance(ledger, t)
                   => t = AtaAddress(last'.maker, last'.mint_x)
      ]_vars

\* a Refund signed by another wallet, naming itself as maker, on the open
\* record of A has been rejected, and the record is still there
C24_Witness ==
    /\ last.op = "refund" /\ last.signed /\ last.recordOpen /\ ~last.recordOk /\ last.vaultOk
    /\ ~last.ok /\ last.err = "InvalidAccountData"
    /\ \E e \in EscrowAddrs : RecordOpen(ledger, e) /\ ledger.escrow[e].maker = Key("A")

RECURSIVE SumOf(_, _)
\* the sum of the token amounts of the accounts of S in ledger l
SumOf(l, S) ==
    IF S = {} THEN 0
    ELSE LET t == CHOOSE u \in S : TRUE
         IN  l.token[t].amount + SumOf(l, S \ {t})

\* the units of mint m held in all token accounts, custody accounts included
Supply(l, m) == SumOf(l, {t \in TokenAddrs : IsTokenAccount(l, t) /\ l.token[t].mint = m})

====
